---- MODULE Spec2Model ----
(***************************************************************************)
(* Model of check_slaves.py: the version check of the worker nodes.        *)
(* check_versions measures the master's Java and Hadoop versions, seeds    *)
(* the two version dictionaries, starts one thread per slave               *)
(* (check_slave_vers), joins them, and then reads the "none" buckets and   *)
(* writes the two report files.                                            *)
(*                                                                         *)
(* Characters are one-character strings, host names and printed text are   *)
(* sequences of characters, version strings are TLA+ strings.              *)
(***************************************************************************)
EXTENDS Integers, Sequences, FiniteSets, TLC

\* ------------------------------------------------------------------ bounds
\* Number of host names get_slaves() returns.
NumSlaves == 2

\* Longest remote output, in lines, the channel delivers in one recv.
MaxLines == 2

\* ------------------------------------------------------ characters, hosts
\* The characters that occur, in ASCII order.
Alphabet == <<" ", ",", "a", "b">>

Ord(c) == CHOOSE i \in 1..Len(Alphabet) : Alphabet[i] = c

\* Python's str comparison: lexicographic by character, a prefix is smaller.
RECURSIVE StrLess(_, _)
StrLess(a, b) ==
    IF b = <<>> THEN FALSE
    ELSE IF a = <<>> THEN TRUE
    ELSE IF Head(a) # Head(b) THEN Ord(Head(a)) < Ord(Head(b))
    ELSE StrLess(Tail(a), Tail(b))

\* os.uname()[1], the master's host name.
Master == <<"b">>

\* The slaves file, in file order (not sorted).
SlaveFile == << <<"b", "a">>, <<"a", "b">>, <<"a">>, <<"b", "b">> >>

get_slaves == SubSeq(SlaveFile, 1, NumSlaves)

Slaves == {get_slaves[i] : i \in 1..Len(get_slaves)}

\* -------------------------------------------------------- remote output
\* Version strings a command output can carry; "" is an empty capture.
Versions == {"8", "none", ""}

\* Paths `which hadoop` can print; "" is the empty second line.
DefaultHadoopPath == "/usr/local/hadoop/bin/hadoop"

Paths == {"", "/usr/bin/hadoop"}

\* A line of output is one of
\*   marker "java":   a line ending in  version "<val>"
\*   marker "hadoop": a line containing  Hadoop <val>  up to its end
\*   marker "text":   any other line, val is its whole text
VersionLines == [marker : {"java", "hadoop"}, val : Versions]

TextLines == [marker : {"text"}, val : Paths]

Lines == VersionLines \cup TextLines

RECURSIVE SeqsUpTo(_, _)
SeqsUpTo(S, n) ==
    IF n = 0 THEN {<<>>}
    ELSE LET shorter == SeqsUpTo(S, n - 1)
         IN  shorter \cup {Append(q, x) : q \in {r \in shorter : Len(r) = n - 1}, x \in S}

\* What output.split("\n") can be after a recv of at least one byte.
Outputs == SeqsUpTo(Lines, MaxLines) \ {<<>>}

\* The same for `which hadoop`, which prints no version line.
WhichOutputs == SeqsUpTo(TextLines, MaxLines) \ {<<>>}

\* output[1] of the split text; IndexError when there is no second line.
IndexError == "IndexError"

SecondLine(output) == IF Len(output) < 2 THEN IndexError ELSE output[2].val

\* re.findall(pattern, output, re.MULTILINE): the captures, in line order.
RECURSIVE findall(_, _)
findall(marker, output) ==
    IF output = <<>> THEN <<>>
    ELSE IF Head(output).marker = marker
         THEN <<Head(output).val>> \o findall(marker, Tail(output))
         ELSE findall(marker, Tail(output))

get_java_version(output) ==
    LET ver == findall("java", output)
    IN  IF ver # <<>> THEN ver[1] ELSE ""

get_hadoop_version(output) ==
    LET ver == findall("hadoop", output)
    IN  IF ver # <<>> THEN ver[1] ELSE ""

\* What the two probes and output[1] yield over all outputs.
JavaResults == {get_java_version(output) : output \in Outputs}

HadoopResults == {get_hadoop_version(output) : output \in Outputs}

WhichResults == {SecondLine(output) : output \in WhichOutputs}

\* ----------------------------------------------------------- dictionaries
\* A dict is a function from its keys to lists of hosts.
EmptyDict == [k \in {} |-> <<>>]

\* d[k] = v
DictSet(d, k, v) == [x \in (DOMAIN d) \cup {k} |-> IF x = k THEN v ELSE d[x]]

\* Mutant: the key is not deleted.
DictDelNot(d, k) == d

\* del d[k]
DictDel(d, k) == [x \in (DOMAIN d) \ {k} |-> d[x]]

\* {ver : [host], "none" : []}: a dict display keeps the last value of a
\* repeated key.
SeedDict(ver, host) == DictSet(DictSet(EmptyDict, ver, <<host>>), "none", <<>>)

\* The body of add_to_dict's `with lock` block.
add_to_dict(version, host, dic) ==
    IF version = "" THEN DictSet(dic, "none", Append(dic["none"], host))
    ELSE IF version \notin DOMAIN dic THEN DictSet(dic, version, <<host>>)
    ELSE DictSet(dic, version, Append(dic[version], host))

\* --------------------------------------------------------------- sorted()
RECURSIVE InsertSorted(_, _)
InsertSorted(x, s) ==
    IF s = <<>> THEN <<x>>
    ELSE IF StrLess(x, Head(s)) THEN <<x>> \o s
    ELSE <<Head(s)>> \o InsertSorted(x, Tail(s))

\* Mutant: the list is printed in insertion order.
sortedNot(s) == s

RECURSIVE sorted(_)
sorted(s) ==
    IF s = <<>> THEN <<>>
    ELSE InsertSorted(s[Len(s)], sorted(SubSeq(s, 1, Len(s) - 1)))

\* sep.join(strs)
RECURSIVE join(_, _)
join(sep, strs) ==
    IF strs = <<>> THEN <<>>
    ELSE IF Len(strs) = 1 THEN strs[1]
    ELSE strs[1] \o sep \o join(sep, Tail(strs))

\* ------------------------------------------------------------ report file
\* A line of a report file.
HeaderLine(version) == [kind |-> "version", val |-> version]

HostLine(host) == [kind |-> "host", val |-> host]

SeparatorLine == [kind |-> "separator", val |-> ""]

HostLines(hosts) == [n \in 1..Len(hosts) |-> HostLine(hosts[n])]

\* The lines write_to_file writes when data.items() yields the keys in `order`.
RECURSIVE FileText(_, _)
FileText(data, order) ==
    IF order = <<>> THEN <<>>
    ELSE <<HeaderLine(Head(order))>> \o HostLines(sorted(data[Head(order)]))
             \o <<SeparatorLine>> \o FileText(data, Tail(order))

\* The orders in which a dict with these keys can be iterated.
Orders(keys) ==
    {o \in SeqsUpTo(keys, Cardinality(keys)) :
        Len(o) = Cardinality(keys) /\ {o[n] : n \in 1..Len(o)} = keys}

\* ------------------------------------------------------------------ state
VARIABLES
    mpc,          \* where the main thread is in check_versions
    i,            \* index of the running `for t in threads` loop
    java_vers,    \* check_versions: the Java dict
    hadoop_vers,  \* check_versions: the Hadoop dict
    java_lock,    \* holder of java_lock, or NoHolder
    hadoop_lock,  \* holder of hadoop_lock, or NoHolder
    pc,           \* per slave: where its thread is in check_slave_vers
    channel,      \* per slave: "unopened", "open" or "closed"
    ready,        \* per slave: channel.recv_ready()
    java_ver,     \* java_ver of check_versions (Master) and of each thread
    hadoop_ver,   \* hadoop_ver of check_versions (Master) and of each thread
    hadoop_path,  \* per slave: hadoop_path of check_slave_vers, "" when unset
    msg,          \* what exit_with_msg printed
    exit_code,    \* the process's exit status, -1 while it runs
    files         \* the report files written so far

\* What each thread has done so far, as seen from outside it.
VARIABLES
    log,   \* per slave: session events, commands sent and insertions, in order
    cmd    \* per slave: the command sent and not yet answered, <<>> when none

wireVars == <<log, cmd>>

\* check_ping, check_ssh and check_time_skew
VARIABLES
    ping,             \* per slave: "success", "unknown" or "fail"; "" before its ping
    ssh,              \* per slave: outcome of ssh.connect in check_ssh; "" before it
    printed,          \* check_time_skew: the lines printed, one per slave
    above_threshold   \* check_time_skew: above_threshold

gateVars == <<ping, ssh, printed, above_threshold>>

\* cpu_ram_monitor.py
VARIABLES
    monitoring_active,  \* the module's global flag
    timers,             \* number of Timer threads started and not yet fired
    running,            \* number of timer threads in monitor() past its check of the flag
    request,            \* path of the POST being handled, "" when the server is idle
    response,           \* the last exchange: its path, and the status sent (0: none)
    pushes              \* number of stats pushes made, counted modulo MaxPushes + 1

monitorVars == <<monitoring_active, timers, running, request, response, pushes>>

\* What check_versions and its threads leave alone.
otherVars == <<gateVars, monitorVars>>

vars == <<mpc, i, java_vers, hadoop_vers, java_lock, hadoop_lock, pc, channel,
          ready, java_ver, hadoop_ver, hadoop_path, msg, exit_code, files,
          wireVars, gateVars, monitorVars>>

NoHolder == <<>>

NoMsg == [kind |-> "", text |-> <<>>]

Hosts == Slaves \cup {Master}

NoResponse == [path |-> "", code |-> 0]

\* The monitor service right after the module is loaded.
MonitorIdle ==
    /\ monitoring_active = FALSE
    /\ timers = 0
    /\ running = 0
    /\ request = ""
    /\ response = NoResponse
    /\ pushes = 0

\* check_versions has not run yet.
VersionsFresh ==
    /\ i = 1
    /\ java_vers = EmptyDict
    /\ hadoop_vers = EmptyDict
    /\ java_lock = NoHolder
    /\ hadoop_lock = NoHolder
    /\ pc = [s \in Slaves |-> "created"]
    /\ channel = [s \in Slaves |-> "unopened"]
    /\ ready = [s \in Slaves |-> FALSE]
    /\ java_ver = [h \in Hosts |-> ""]
    /\ hadoop_ver = [h \in Hosts |-> ""]
    /\ hadoop_path = [s \in Slaves |-> ""]
    /\ msg = NoMsg
    /\ exit_code = -1
    /\ files = EmptyDict
    /\ log = [s \in Slaves |-> <<>>]
    /\ cmd = [s \in Slaves |-> <<>>]

\* check_slaves is about to call check_versions: check_ping and check_ssh
\* have returned, so every slave answered the ping and accepted the keys.
Init ==
    /\ mpc = "check_java_master"
    /\ VersionsFresh
    /\ ping = [s \in Slaves |-> "success"]
    /\ ssh = [s \in Slaves |-> "ok"]
    /\ printed = <<>>
    /\ above_threshold = FALSE
    /\ MonitorIdle

\* ------------------------------------------------------------ main thread
\* exit_with_msg(msg): print and sys.exit(1).
exit_with_msg(m) ==
    /\ msg' = m
    /\ exit_code' = 1
    /\ mpc' = "exit"

\* java_ver = check_java_master(); java_vers = {java_ver : [host], "none" : []}
check_java_master ==
    /\ mpc = "check_java_master"
    /\ \E ver \in JavaResults :
             IF ver = ""
             THEN /\ exit_with_msg([kind |-> "java_master", text |-> <<>>])
                  /\ UNCHANGED <<java_ver, java_vers>>
             ELSE /\ java_ver' = [java_ver EXCEPT ![Master] = ver]
                  /\ java_vers' = SeedDict(ver, Master)
                  /\ mpc' = "check_hadoop_master"
                  /\ UNCHANGED <<msg, exit_code>>
    /\ UNCHANGED <<i, hadoop_vers, java_lock, hadoop_lock, pc, channel, ready,
                   hadoop_ver, hadoop_path, files>>
    /\ UNCHANGED otherVars
    /\ UNCHANGED wireVars

\* hadoop_ver = check_hadoop_master(); hadoop_vers = {...}; then
\* check_java_hadoop_slaves creates the locks and the thread objects.
check_hadoop_master ==
    /\ mpc = "check_hadoop_master"
    /\ \E ver \in HadoopResults :
             IF ver = ""
             THEN /\ exit_with_msg([kind |-> "hadoop_master", text |-> <<>>])
                  /\ UNCHANGED <<hadoop_ver, hadoop_vers, i>>
             ELSE /\ hadoop_ver' = [hadoop_ver EXCEPT ![Master] = ver]
                  /\ hadoop_vers' = SeedDict(ver, Master)
                  /\ mpc' = "start"
                  /\ i' = 1
                  /\ UNCHANGED <<msg, exit_code>>
    /\ UNCHANGED <<java_vers, java_lock, hadoop_lock, pc, channel, ready,
                   java_ver, hadoop_path, files>>
    /\ UNCHANGED otherVars
    /\ UNCHANGED wireVars

\* for t in threads: t.start()
StartThread ==
    /\ mpc = "start"
    /\ pc' = [pc EXCEPT ![get_slaves[i]] = "connect"]
    /\ IF i < Len(get_slaves)
       THEN /\ i' = i + 1
            /\ mpc' = mpc
       ELSE /\ i' = 1
            /\ mpc' = "join"
    /\ UNCHANGED <<java_vers, hadoop_vers, java_lock, hadoop_lock, channel, ready,
                   java_ver, hadoop_ver, hadoop_path, msg, exit_code, files>>
    /\ UNCHANGED otherVars
    /\ UNCHANGED wireVars

\* Mutant: join() does not wait for a thread that is still running.
JoinableNoWait(t) == pc[t] # "created"

\* Mutant: join() never returns for a thread that ended by an exception.
JoinableOnlyDone(t) == pc[t] = "done"

\* t.join() returns once thread t has ended, normally or by an exception.
Joinable(t) == pc[t] \in {"done", "failed"}

\* for t in threads: t.join()
JoinThread ==
    /\ mpc = "join"
    /\ Joinable(get_slaves[i])
    /\ IF i < Len(get_slaves)
       THEN /\ i' = i + 1
            /\ mpc' = mpc
       ELSE /\ i' = 1
            /\ mpc' = "reconcile_java"
    /\ UNCHANGED <<java_vers, hadoop_vers, java_lock, hadoop_lock, pc, channel,
                   ready, java_ver, hadoop_ver, hadoop_path, msg, exit_code, files>>
    /\ UNCHANGED otherVars
    /\ UNCHANGED wireVars

JavaMsg(none) == [kind |-> "java_install", text |-> join(<<",">>, sorted(none))]

HadoopMsg(none) == [kind |-> "hadoop_install", text |-> join(<<",", " ">>, sorted(none))]

\* if java_vers["none"]: exit_with_msg(...)
ReconcileJava ==
    /\ mpc = "reconcile_java"
    /\ IF java_vers["none"] # <<>>
       THEN exit_with_msg(JavaMsg(java_vers["none"]))
       ELSE /\ mpc' = "reconcile_hadoop"
            /\ UNCHANGED <<msg, exit_code>>
    /\ UNCHANGED <<i, java_vers, hadoop_vers, java_lock, hadoop_lock, pc, channel,
                   ready, java_ver, hadoop_ver, hadoop_path, files>>
    /\ UNCHANGED otherVars
    /\ UNCHANGED wireVars

\* if hadoop_vers["none"]: exit_with_msg(...)
ReconcileHadoop ==
    /\ mpc = "reconcile_hadoop"
    /\ IF hadoop_vers["none"] # <<>>
       THEN exit_with_msg(HadoopMsg(hadoop_vers["none"]))
       ELSE /\ mpc' = "write_java"
            /\ UNCHANGED <<msg, exit_code>>
    /\ UNCHANGED <<i, java_vers, hadoop_vers, java_lock, hadoop_lock, pc, channel,
                   ready, java_ver, hadoop_ver, hadoop_path, files>>
    /\ UNCHANGED otherVars
    /\ UNCHANGED wireVars

\* An exception nobody catches reaches the top of the main thread: Python
\* prints the traceback and the process ends with status 1.
Uncaught(exception) ==
    /\ msg' = [kind |-> exception, text |-> <<>>]
    /\ exit_code' = 1
    /\ mpc' = "exit"

\* write_to_file(java_vers, "java_ver.txt"): `del data["none"]` acts on the
\* caller's dict and raises KeyError when the key is missing.
WriteJava ==
    /\ mpc = "write_java"
    /\ IF "none" \notin DOMAIN java_vers
       THEN /\ Uncaught("KeyError")
            /\ UNCHANGED <<java_vers, files>>
       ELSE /\ java_vers' = DictDel(java_vers, "none")
            /\ \E order \in Orders(DOMAIN java_vers') :
                 files' = DictSet(files, "java_ver.txt", FileText(java_vers', order))
            /\ mpc' = "write_hadoop"
            /\ UNCHANGED <<msg, exit_code>>
    /\ UNCHANGED <<i, hadoop_vers, java_lock, hadoop_lock, pc, channel, ready,
                   java_ver, hadoop_ver, hadoop_path>>
    /\ UNCHANGED otherVars
    /\ UNCHANGED wireVars

\* write_to_file(hadoop_vers, "hadoop_ver.txt")
WriteHadoop ==
    /\ mpc = "write_hadoop"
    /\ IF "none" \notin DOMAIN hadoop_vers
       THEN /\ Uncaught("KeyError")
            /\ UNCHANGED <<hadoop_vers, files>>
       ELSE /\ hadoop_vers' = DictDel(hadoop_vers, "none")
            /\ \E order \in Orders(DOMAIN hadoop_vers') :
                 files' = DictSet(files, "hadoop_ver.txt", FileText(hadoop_vers', order))
            /\ mpc' = "returned"
            /\ UNCHANGED <<msg, exit_code>>
    /\ UNCHANGED <<i, java_vers, java_lock, hadoop_lock, pc, channel, ready,
                   java_ver, hadoop_ver, hadoop_path>>
    /\ UNCHANGED otherVars
    /\ UNCHANGED wireVars

\* ------------------------------------------- check_slave_vers, one thread
\* The events of one thread that runs to its end, in order.
Protocol ==
    <<"open", "banner", "java -version", "which hadoop", "version", "close",
      "add_java", "add_hadoop">>

\* Mutant: the first command is sent with the welcome message unread.
AfterConnectSend == "java_send"

\* Where check_slave_vers goes on once the shell is open: lines 168-170.
AfterConnect == "banner"

\* Where check_slave_vers goes on after the last command: line 184.
AfterHadoop == "close"

\* ssh.connect(...); channel = ssh.invoke_shell()
Connect(s) ==
    /\ pc[s] = "connect"
    /\ channel' = [channel EXCEPT ![s] = "open"]
    /\ pc' = [pc EXCEPT ![s] = AfterConnect]
    /\ UNCHANGED <<mpc, i, java_vers, hadoop_vers, java_lock, hadoop_lock, ready,
                   java_ver, hadoop_ver, hadoop_path, msg, exit_code, files>>
    /\ UNCHANGED otherVars
    /\ log' = [log EXCEPT ![s] = Append(@, "open")]
    /\ UNCHANGED cmd

\* An exception leaves check_slave_vers, which has no try: the thread ends
\* there and its locals go with its frame.  The channel stays as it is.
Raise(s) ==
    /\ pc' = [pc EXCEPT ![s] = "failed"]
    /\ java_ver' = [java_ver EXCEPT ![s] = ""]
    /\ hadoop_ver' = [hadoop_ver EXCEPT ![s] = ""]
    /\ hadoop_path' = [hadoop_path EXCEPT ![s] = ""]
    /\ ready' = [ready EXCEPT ![s] = FALSE]

\* ssh.connect raises (authentication, no valid connection, ...).
ConnectFail(s) ==
    /\ pc[s] = "connect"
    /\ Raise(s)
    /\ UNCHANGED <<mpc, i, java_vers, hadoop_vers, java_lock, hadoop_lock, channel,
                   msg, exit_code, files>>
    /\ UNCHANGED otherVars
    /\ UNCHANGED wireVars

\* time.sleep(1); channel.recv(999): the welcome message is read and dropped.
ReadBanner(s) ==
    /\ pc[s] = "banner"
    /\ pc' = [pc EXCEPT ![s] = "java_send"]
    /\ UNCHANGED <<mpc, i, java_vers, hadoop_vers, java_lock, hadoop_lock, channel,
                   ready, java_ver, hadoop_ver, hadoop_path, msg, exit_code, files>>
    /\ UNCHANGED otherVars
    /\ log' = [log EXCEPT ![s] = Append(@, "banner")]
    /\ UNCHANGED cmd

SendAt == {"java_send", "which_send", "hadoop_send"}

WaitAfter(p) ==
    CASE p = "java_send" -> "java_wait"
      [] p = "which_send" -> "which_wait"
      [] p = "hadoop_send" -> "hadoop_wait"

\* The command text of each run_remote_command call, first word first; the
\* third is hadoop_path + " version\n".
Command(p, path) ==
    CASE p = "java_send" -> <<"java -version">>
      [] p = "which_send" -> <<"which hadoop">>
      [] p = "hadoop_send" -> <<"version", path>>

\* run_remote_command: channel.send(cmd)
Send(s) ==
    /\ pc[s] \in SendAt
    /\ channel[s] = "open"
    /\ pc' = [pc EXCEPT ![s] = WaitAfter(pc[s])]
    /\ ready' = [ready EXCEPT ![s] = FALSE]
    /\ UNCHANGED <<mpc, i, java_vers, hadoop_vers, java_lock, hadoop_lock, channel,
                   java_ver, hadoop_ver, hadoop_path, msg, exit_code, files>>
    /\ UNCHANGED otherVars
    /\ cmd' = [cmd EXCEPT ![s] = Command(pc[s], hadoop_path[s])]
    /\ log' = [log EXCEPT ![s] = Append(@, Head(cmd'[s]))]

\* channel.send raises (the connection died).
SendFail(s) ==
    /\ pc[s] \in SendAt
    /\ Raise(s)
    /\ UNCHANGED <<mpc, i, java_vers, hadoop_vers, java_lock, hadoop_lock, channel,
                   msg, exit_code, files>>
    /\ UNCHANGED otherVars
    /\ UNCHANGED wireVars

\* The remote shell writes output: recv_ready() turns true.  Until then the
\* thread loops in `while not channel.recv_ready(): time.sleep(1)`.
RemoteOutput(s) ==
    /\ pc[s] \in {"java_wait", "which_wait", "hadoop_wait"}
    /\ ~ready[s]
    /\ ready' = [ready EXCEPT ![s] = TRUE]
    /\ UNCHANGED <<mpc, i, java_vers, hadoop_vers, java_lock, hadoop_lock, pc,
                   channel, java_ver, hadoop_ver, hadoop_path, msg, exit_code, files>>
    /\ UNCHANGED otherVars
    /\ UNCHANGED wireVars

\* Mutant: the output is read without waiting for recv_ready().
RecvReadyAlways(s) == TRUE

\* `while not channel.recv_ready(): time.sleep(1)` is left.
RecvReady(s) == ready[s]

\* output = run_remote_command("java -version\n"); java_ver = get_java_version(output)
RecvJava(s) ==
    /\ pc[s] = "java_wait"
    /\ RecvReady(s)
    /\ \E ver \in JavaResults :
         java_ver' = [java_ver EXCEPT ![s] = ver]
    /\ ready' = [ready EXCEPT ![s] = FALSE]
    /\ pc' = [pc EXCEPT ![s] = "which_send"]
    /\ UNCHANGED <<mpc, i, java_vers, hadoop_vers, java_lock, hadoop_lock, channel,
                   hadoop_ver, hadoop_path, msg, exit_code, files>>
    /\ UNCHANGED otherVars
    /\ cmd' = [cmd EXCEPT ![s] = <<>>]
    /\ UNCHANGED log

\* output = run_remote_command("which hadoop\n").split("\n");
\* hadoop_path = output[1], or the default when that line is empty.
\* output[1] raises IndexError when the text received has no newline.
RecvWhich(s) ==
    /\ pc[s] = "which_wait"
    /\ RecvReady(s)
    /\ \E line \in WhichResults :
         IF line = IndexError
         THEN Raise(s)
         ELSE /\ pc' = [pc EXCEPT ![s] = "hadoop_send"]
              /\ hadoop_path' =
                   [hadoop_path EXCEPT ![s] =
                      IF line = "" THEN DefaultHadoopPath ELSE line]
              /\ ready' = [ready EXCEPT ![s] = FALSE]
              /\ UNCHANGED <<java_ver, hadoop_ver>>
    /\ UNCHANGED <<mpc, i, java_vers, hadoop_vers, java_lock, hadoop_lock, channel,
                   msg, exit_code, files>>
    /\ UNCHANGED otherVars
    /\ cmd' = [cmd EXCEPT ![s] = <<>>]
    /\ UNCHANGED log

\* output = run_remote_command(hadoop_path + " version\n");
\* hadoop_ver = get_hadoop_version(output).  hadoop_path is not read after
\* this statement and is forgotten here.
RecvHadoop(s) ==
    /\ pc[s] = "hadoop_wait"
    /\ RecvReady(s)
    /\ \E ver \in HadoopResults :
         hadoop_ver' = [hadoop_ver EXCEPT ![s] = ver]
    /\ hadoop_path' = [hadoop_path EXCEPT ![s] = ""]
    /\ ready' = [ready EXCEPT ![s] = FALSE]
    /\ pc' = [pc EXCEPT ![s] = AfterHadoop]
    /\ UNCHANGED <<mpc, i, java_vers, hadoop_vers, java_lock, hadoop_lock, channel,
                   java_ver, msg, exit_code, files>>
    /\ UNCHANGED otherVars
    /\ cmd' = [cmd EXCEPT ![s] = <<>>]
    /\ UNCHANGED log

\* channel.close()
Close(s) ==
    /\ pc[s] = "close"
    /\ channel' = [channel EXCEPT ![s] = "closed"]
    /\ pc' = [pc EXCEPT ![s] = "java_lock"]
    /\ UNCHANGED <<mpc, i, java_vers, hadoop_vers, java_lock, hadoop_lock, ready,
                   java_ver, hadoop_ver, hadoop_path, msg, exit_code, files>>
    /\ UNCHANGED otherVars
    /\ log' = [log EXCEPT ![s] = Append(@, "close")]
    /\ UNCHANGED cmd

\* Mutant: the block is entered without waiting for the lock.
CanAcquireAlways(lock) == TRUE

\* `with lock:` can be entered when nobody holds the lock.
CanAcquire(lock) == lock = NoHolder

\* add_to_dict(java_ver, slave, java_vers, java_lock): enter `with lock`
AcquireJava(s) ==
    /\ pc[s] = "java_lock"
    /\ CanAcquire(java_lock)
    /\ java_lock' = s
    /\ pc' = [pc EXCEPT ![s] = "java_add"]
    /\ UNCHANGED <<mpc, i, java_vers, hadoop_vers, hadoop_lock, channel, ready,
                   java_ver, hadoop_ver, hadoop_path, msg, exit_code, files>>
    /\ UNCHANGED otherVars
    /\ UNCHANGED wireVars

\* the body of the `with lock` block, and the release at its end
AddJava(s) ==
    /\ pc[s] = "java_add"
    /\ java_vers' = add_to_dict(java_ver[s], s, java_vers)
    /\ java_lock' = NoHolder
    /\ pc' = [pc EXCEPT ![s] = "hadoop_lock"]
    /\ UNCHANGED <<mpc, i, hadoop_vers, hadoop_lock, channel, ready, java_ver,
                   hadoop_ver, hadoop_path, msg, exit_code, files>>
    /\ UNCHANGED otherVars
    /\ log' = [log EXCEPT ![s] = Append(@, "add_java")]
    /\ UNCHANGED cmd

\* add_to_dict(hadoop_ver, slave, hadoop_vers, hadoop_lock): enter `with lock`
AcquireHadoop(s) ==
    /\ pc[s] = "hadoop_lock"
    /\ CanAcquire(hadoop_lock)
    /\ hadoop_lock' = s
    /\ pc' = [pc EXCEPT ![s] = "hadoop_add"]
    /\ UNCHANGED <<mpc, i, java_vers, hadoop_vers, java_lock, channel, ready,
                   java_ver, hadoop_ver, hadoop_path, msg, exit_code, files>>
    /\ UNCHANGED otherVars
    /\ UNCHANGED wireVars

AddHadoop(s) ==
    /\ pc[s] = "hadoop_add"
    /\ hadoop_vers' = add_to_dict(hadoop_ver[s], s, hadoop_vers)
    /\ hadoop_lock' = NoHolder
    /\ pc' = [pc EXCEPT ![s] = "done"]
    /\ UNCHANGED <<mpc, i, java_vers, java_lock, channel, ready, java_ver,
                   hadoop_ver, hadoop_path, msg, exit_code, files>>
    /\ UNCHANGED otherVars
    /\ log' = [log EXCEPT ![s] = Append(@, "add_hadoop")]
    /\ UNCHANGED cmd

\* ---------------------------------------------------------- specification
Main ==
    \/ check_java_master
    \/ check_hadoop_master
    \/ StartThread
    \/ JoinThread
    \/ ReconcileJava
    \/ ReconcileHadoop
    \/ WriteJava
    \/ WriteHadoop

Thread(s) ==
    \/ Connect(s)
    \/ ConnectFail(s)
    \/ ReadBanner(s)
    \/ Send(s)
    \/ SendFail(s)
    \/ RecvJava(s)
    \/ RecvWhich(s)
    \/ RecvHadoop(s)
    \/ Close(s)
    \/ AcquireJava(s)
    \/ AddJava(s)
    \/ AcquireHadoop(s)
    \/ AddHadoop(s)

Next ==
    \/ Main
    \/ \E s \in Slaves : Thread(s)
    \/ \E s \in Slaves : RemoteOutput(s)

Spec == Init /\ [][Next]_vars

FairSpec ==
    /\ Spec
    /\ WF_vars(Main)
    /\ \A s \in Slaves : WF_vars(Thread(s))
    /\ \A s \in Slaves : WF_vars(RemoteOutput(s))

\* ------------------------------------------------------------- properties
Range(q) == {q[n] : n \in 1..Len(q)}

Count(q, x) == Cardinality({n \in 1..Len(q) : q[n] = x})

\* Number of host entries of a dict, summed over its buckets.
RECURSIVE TotalOver(_, _)
TotalOver(dic, keys) ==
    IF keys = {} THEN 0
    ELSE LET k == CHOOSE x \in keys : TRUE
         IN  Len(dic[k]) + TotalOver(dic, keys \ {k})

Total(dic) == TotalOver(dic, DOMAIN dic)

\* Number of times host h occurs in dic, over all buckets.
RECURSIVE OccurrencesOver(_, _, _)
OccurrencesOver(dic, keys, h) ==
    IF keys = {} THEN 0
    ELSE LET k == CHOOSE x \in keys : TRUE
         IN  Count(dic[k], h) + OccurrencesOver(dic, keys \ {k}, h)

Occurrences(dic, h) == OccurrencesOver(dic, DOMAIN dic, h)

\* Host h is once in bucket k of dic and nowhere else in dic.
OnlyInBucket(dic, k, h) ==
    /\ k \in DOMAIN dic
    /\ Count(dic[k], h) = 1
    /\ Occurrences(dic, h) = 1

\* check_java_hadoop_slaves has just returned to check_versions.
InventoryReturned == mpc = "reconcile_java"

\* check_versions is past its call of check_java_hadoop_slaves.
AfterInventory ==
    \/ mpc \in {"reconcile_java", "reconcile_hadoop", "write_java", "write_hadoop",
                "returned"}
    \/ mpc = "exit" /\ msg.kind \in {"java_install", "hadoop_install"}

Ended(s) == pc[s] \in {"done", "failed"}

\* C1: when check_java_hadoop_slaves returns, the host entries summed over
\* all buckets number len(workers) + 1, in the Java map and in the Hadoop map.
C1_EntryCount ==
    InventoryReturned =>
        /\ Total(java_vers) = Len(get_slaves) + 1
        /\ Total(hadoop_vers) = Len(get_slaves) + 1

\* C2: after inventory every slave is in exactly one bucket of each map,
\* once; and when the first thread is about to be started the master is in
\* the bucket of its own version in each map.
C2_ExactlyOneBucket ==
    /\ InventoryReturned =>
         \A s \in Slaves :
            /\ Occurrences(java_vers, s) = 1
            /\ Occurrences(hadoop_vers, s) = 1
    /\ (mpc = "start" /\ i = 1) =>
         /\ OnlyInBucket(java_vers, java_ver[Master], Master)
         /\ OnlyInBucket(hadoop_vers, hadoop_ver[Master], Master)

\* C3: check_java_hadoop_slaves is a barrier: once check_versions is past
\* it (reading the "none" buckets, writing the reports, exiting on them),
\* every thread has ended and none holds a lock.
C3_Barrier ==
    AfterInventory =>
        /\ \A s \in Slaves : Ended(s)
        /\ java_lock = NoHolder
        /\ hadoop_lock = NoHolder

C3_Witness ==
    /\ mpc = "returned"
    /\ \E s \in Slaves : pc[s] = "done"
    /\ \E s \in Slaves : pc[s] = "failed"

\* The hosts of a set, listed once each in lexicographic order.
InOrder(S) ==
    CHOOSE q \in SeqsUpTo(S, Cardinality(S)) :
        /\ Range(q) = S
        /\ \A m, n \in 1..Len(q) : m < n => StrLess(q[m], q[n])

\* The pieces of a text between its commas.
RECURSIVE SplitComma(_, _)
SplitComma(text, piece) ==
    IF text = <<>> THEN <<piece>>
    ELSE IF Head(text) = "," THEN <<piece>> \o SplitComma(Tail(text), <<>>)
    ELSE SplitComma(Tail(text), Append(piece, Head(text)))

Strip(str) == IF str # <<>> /\ Head(str) = " " THEN Tail(str) ELSE str

\* The host names a printed list names, in the order printed.
Listed(text) ==
    LET pieces == SplitComma(text, <<>>)
    IN  [n \in 1..Len(pieces) |-> Strip(pieces[n])]

\* C4: for each map, the reconciliation step exits with the installation
\* message and status 1 if and only if the map's "none" bucket is not empty,
\* and the message lists the hosts of the bucket once each in lexicographic
\* order.
C4_Reconcile ==
    [][/\ mpc = "reconcile_java" =>
            IF java_vers["none"] # <<>>
            THEN /\ mpc' = "exit"
                 /\ exit_code' = 1
                 /\ msg'.kind = "java_install"
                 /\ Listed(msg'.text) = InOrder(Range(java_vers["none"]))
            ELSE /\ mpc' # "exit"
                 /\ exit_code' = exit_code
                 /\ msg' = msg
       /\ mpc = "reconcile_hadoop" =>
            IF hadoop_vers["none"] # <<>>
            THEN /\ mpc' = "exit"
                 /\ exit_code' = 1
                 /\ msg'.kind = "hadoop_install"
                 /\ Listed(msg'.text) = InOrder(Range(hadoop_vers["none"]))
            ELSE /\ mpc' # "exit"
                 /\ exit_code' = exit_code
                 /\ msg' = msg]_vars

C4_Witness ==
    /\ mpc = "exit"
    /\ msg.kind = "hadoop_install"
    /\ Len(hadoop_vers["none"]) > 1
    /\ hadoop_vers["none"] # sorted(hadoop_vers["none"])

\* C5: a slave whose thread failed is in the "none" bucket of both maps when
\* inventory returns.
C5_FailureRecorded ==
    InventoryReturned =>
        \A s \in Slaves :
            pc[s] = "failed" =>
                /\ s \in Range(java_vers["none"])
                /\ s \in Range(hadoop_vers["none"])

\* The key add_to_dict files a version under.
Key(version) == IF version = "" THEN "none" ELSE version

C7_SessionClosed == \A s \in Slaves : Ended(s) => channel[s] # "open"

\* C8: at most one thread is inside add_to_dict's block for a map; each
\* lock is held exactly by the thread inside the block of its own map, so
\* never together with the other lock and never before the thread has
\* finished its remote commands and closed its channel.
C8_Locks ==
    /\ Cardinality({s \in Slaves : pc[s] = "java_add"}) <= 1
    /\ Cardinality({s \in Slaves : pc[s] = "hadoop_add"}) <= 1
    /\ \A s \in Slaves :
         /\ java_lock = s <=> pc[s] = "java_add"
         /\ hadoop_lock = s <=> pc[s] = "hadoop_add"
         /\ (java_lock = s \/ hadoop_lock = s) => (channel[s] = "closed" /\ ~ready[s])
    /\ java_lock \in Slaves \cup {NoHolder}
    /\ hadoop_lock \in Slaves \cup {NoHolder}

\* The two locks are held at the same time by two different threads.
C8_Witness ==
    \E s, t \in Slaves :
        /\ s # t
        /\ java_lock = s
        /\ hadoop_lock = t

\* The hosts that reported version v: the slaves that extracted it, and the
\* master when it is the master's own.
Reported(ver, v) ==
    {s \in Slaves : pc[s] = "done" /\ ver[s] = v}
        \cup (IF ver[Master] = v THEN {Master} ELSE {})

Bucket(dic, v) == IF v \in DOMAIN dic THEN dic[v] ELSE <<>>

\* C9: after inventory the bucket of every version v holds exactly the
\* hosts that reported v, once each, whatever the schedule.
C9_BucketsAsReported ==
    InventoryReturned =>
        \A v \in Versions \ {""} :
            /\ Range(Bucket(java_vers, v)) = Reported(java_ver, v)
            /\ Len(Bucket(java_vers, v)) = Cardinality(Reported(java_ver, v))
            /\ Range(Bucket(hadoop_vers, v)) = Reported(hadoop_ver, v)
            /\ Len(Bucket(hadoop_vers, v)) = Cardinality(Reported(hadoop_ver, v))

\* C10: a host that extracted a version string is not in the "none" bucket,
\* whatever that string is.
C10_SentinelDistinct ==
    InventoryReturned =>
        \A h \in Hosts :
            /\ (h \in Slaves => pc[h] = "done") /\ java_ver[h] # ""
                 => h \notin Range(java_vers["none"])
            /\ (h \in Slaves => pc[h] = "done") /\ hadoop_ver[h] # ""
                 => h \notin Range(hadoop_vers["none"])

\* ------------------------------------------------- write_to_file alone
\* Longest bucket of the dicts write_to_file is tried on.
MaxBucket == 2

\* Keys of those dicts.
WriterKeys == {"8", "11", "none"}

\* Lists of distinct hosts, in any order.
HostLists ==
    {q \in SeqsUpTo(Hosts, MaxBucket) : Cardinality(Range(q)) = Len(q)}

\* The dicts write_to_file is tried on, with and without the key "none".
WriterDicts == UNION {[keys -> HostLists] : keys \in SUBSET WriterKeys}

\* check_versions is about to call write_to_file(java_vers, ...), for any
\* java_vers.
WriterInit ==
    /\ mpc = "write_java"
    /\ i = 1
    /\ java_vers \in WriterDicts
    /\ hadoop_vers = SeedDict("8", Master)
    /\ java_lock = NoHolder
    /\ hadoop_lock = NoHolder
    /\ pc = [s \in Slaves |-> "done"]
    /\ channel = [s \in Slaves |-> "closed"]
    /\ ready = [s \in Slaves |-> FALSE]
    /\ java_ver = [h \in Hosts |-> "8"]
    /\ hadoop_ver = [h \in Hosts |-> "8"]
    /\ hadoop_path = [s \in Slaves |-> ""]
    /\ msg = NoMsg
    /\ exit_code = -1
    /\ files = EmptyDict
    /\ log = [s \in Slaves |-> Protocol]
    /\ cmd = [s \in Slaves |-> <<>>]
    /\ ping = [s \in Slaves |-> "success"]
    /\ ssh = [s \in Slaves |-> "ok"]
    /\ printed = <<>>
    /\ above_threshold = FALSE
    /\ MonitorIdle

WriterNext ==
    \/ WriteJava
    \/ WriteHadoop

WriterSpec == WriterInit /\ [][WriterNext]_vars

\* Reading a report back: the (version, hosts) blocks of its lines.
RECURSIVE ParseFile(_, _, _)
ParseFile(lines, block, blocks) ==
    IF lines = <<>> THEN blocks
    ELSE LET line == Head(lines)
         IN  CASE line.kind = "version" ->
                    ParseFile(Tail(lines), <<line.val, <<>>>>, blocks)
               [] line.kind = "host" ->
                    ParseFile(Tail(lines), <<block[1], Append(block[2], line.val)>>, blocks)
               [] line.kind = "separator" ->
                    ParseFile(Tail(lines), <<>>, blocks \cup {block})

\* The (version, hosts in lexicographic order) pairs of a dict.
Pairs(dic) == {<<v, InOrder(Range(dic[v]))>> : v \in DOMAIN dic}

versionVars == <<java_vers, hadoop_vers, java_lock, hadoop_lock, pc, channel, ready,
                 java_ver, hadoop_ver, hadoop_path, files, wireVars>>

\* The slaves with the given ping result, in get_slaves() order.
PingList(result) == SelectSeq(get_slaves, LAMBDA h : ping[h] = result)

\* check_ping, loop body: one ping, classified by its output.
PingSlave ==
    /\ mpc = "check_ping"
    /\ \E result \in {"success", "unknown", "fail"} :
         ping' = [ping EXCEPT ![get_slaves[i]] = result]
    /\ IF i < Len(get_slaves)
       THEN /\ i' = i + 1
            /\ mpc' = mpc
       ELSE /\ i' = 1
            /\ mpc' = "ping_decide"
    /\ UNCHANGED <<versionVars, msg, exit_code, ssh, printed, above_threshold,
                   monitorVars>>

\* Mutant: hosts that do not answer are not looked at.
PingVerdictNoFail(unknown_ping, fail_ping, successful_ping) ==
    IF unknown_ping # <<>> THEN "unknown_hosts"
    ELSE IF successful_ping = <<>> THEN "no_slaves"
    ELSE "ok"

\* check_ping after the loop: which of its three exits is taken, if any.
PingVerdict(unknown_ping, fail_ping, successful_ping) ==
    IF unknown_ping # <<>> THEN "unknown_hosts"
    ELSE IF fail_ping # <<>> THEN "cannot_ping"
    ELSE IF successful_ping = <<>> THEN "no_slaves"
    ELSE "ok"

PingMsg(verdict) ==
    [kind |-> verdict,
     text |-> CASE verdict = "unknown_hosts" -> join(<<",", " ">>, PingList("unknown"))
                [] verdict = "cannot_ping" -> join(<<",", " ">>, PingList("fail"))
                [] OTHER -> <<>>]

PingDecide ==
    /\ mpc = "ping_decide"
    /\ LET verdict == PingVerdict(PingList("unknown"), PingList("fail"),
                                  PingList("success"))
       IN  IF verdict # "ok"
           THEN exit_with_msg(PingMsg(verdict))
           ELSE /\ mpc' = "check_ssh"
                /\ UNCHANGED <<msg, exit_code>>
    /\ UNCHANGED <<i, versionVars, gateVars, monitorVars>>

\* What ssh.connect can do in check_ssh: return, raise one of the two
\* exceptions check_ssh catches, or raise another one.
SshOutcomes == {"ok", "AuthenticationException", "NoValidConnectionsError", "SSHException"}

\* check_ssh, loop body.
SshSlave ==
    /\ mpc = "check_ssh"
    /\ \E outcome \in SshOutcomes :
         /\ ssh' = [ssh EXCEPT ![get_slaves[i]] = outcome]
         /\ CASE outcome = "ok" ->
                   /\ IF i < Len(get_slaves)
                      THEN /\ i' = i + 1
                           /\ mpc' = mpc
                      ELSE /\ i' = 1
                           /\ mpc' = "check_java_master"
                   /\ UNCHANGED <<msg, exit_code>>
              [] outcome \in {"AuthenticationException", "NoValidConnectionsError"} ->
                   /\ exit_with_msg([kind |-> outcome, text |-> get_slaves[i]])
                   /\ UNCHANGED i
              [] OTHER ->
                   /\ Uncaught(outcome)
                   /\ UNCHANGED i
    /\ UNCHANGED <<versionVars, ping, printed, above_threshold, monitorVars>>

\* check_time_skew: `which clockdiff`
WhichClockdiff ==
    /\ mpc = "returned"
    /\ \E found \in BOOLEAN :
         IF found
         THEN /\ mpc' = "skew"
              /\ UNCHANGED <<msg, exit_code>>
         ELSE exit_with_msg([kind |-> "no_clockdiff", text |-> <<>>])
    /\ UNCHANGED <<i, versionVars, gateVars, monitorVars>>

time_threshold == 20000

\* What clockdiff can report, in ms.
SkewValues == {-20001, -20000, -19999, 0, 19999, 20000}

abs(x) == IF x < 0 THEN -x ELSE x

\* Mutant: a difference equal to the threshold passes.
FlaggedAbove(time_skew) == abs(time_skew) > time_threshold

\* if abs(time_skew) >= time_threshold
Flagged(time_skew) == abs(time_skew) >= time_threshold

\* Mutant: the flag is assigned the last slave's verdict.
NextAboveLast(above, time_skew) == Flagged(time_skew)

\* above_threshold after one more slave: set when flagged, else kept.
NextAbove(above, time_skew) == IF Flagged(time_skew) THEN TRUE ELSE above

\* check_time_skew, loop body: measure one slave, print its line.
SkewSlave ==
    /\ mpc = "skew"
    /\ \E time_skew \in SkewValues :
         /\ printed' = Append(printed, [host |-> get_slaves[i], skew |-> time_skew,
                                        red |-> Flagged(time_skew)])
         /\ above_threshold' = NextAbove(above_threshold, time_skew)
    /\ IF i < Len(get_slaves)
       THEN /\ i' = i + 1
            /\ mpc' = mpc
       ELSE /\ i' = 1
            /\ mpc' = "skew_decide"
    /\ UNCHANGED <<versionVars, msg, exit_code, ping, ssh, monitorVars>>

\* check_time_skew after the loop; check_slaves then returns and the
\* process ends with status 0.
SkewDecide ==
    /\ mpc = "skew_decide"
    /\ IF above_threshold
       THEN exit_with_msg([kind |-> "skew", text |-> <<>>])
       ELSE /\ mpc' = "finished"
            /\ exit_code' = 0
            /\ UNCHANGED msg
    /\ UNCHANGED <<i, versionVars, gateVars, monitorVars>>

\* check_slaves is called.
RunInit ==
    /\ mpc = "check_ping"
    /\ VersionsFresh
    /\ ping = [s \in Slaves |-> ""]
    /\ ssh = [s \in Slaves |-> ""]
    /\ printed = <<>>
    /\ above_threshold = FALSE
    /\ MonitorIdle

RunNext ==
    \/ PingSlave
    \/ PingDecide
    \/ SshSlave
    \/ Next
    \/ WhichClockdiff
    \/ SkewSlave
    \/ SkewDecide

RunSpec == RunInit /\ [][RunNext]_vars

C13_SkewAllFirst ==
    /\ (mpc = "exit" /\ msg.kind = "skew") =>
         /\ [n \in 1..Len(printed) |-> printed[n].host] = get_slaves
         /\ \E n \in 1..Len(printed) : printed[n].red
    /\ mpc = "finished" =>
         /\ [n \in 1..Len(printed) |-> printed[n].host] = get_slaves
         /\ \A n \in 1..Len(printed) : ~printed[n].red
    /\ mpc \in {"skew", "skew_decide"} => (exit_code = -1 /\ msg = NoMsg)
    /\ mpc = "skew" => Len(printed) = i - 1

C13_Witness ==
    /\ mpc = "exit"
    /\ msg.kind = "skew"
    /\ printed[1].red
    /\ ~printed[Len(printed)].red

\* The stages of check_slaves, in call order; "exit" is final.
Stage(at) ==
    CASE at \in {"check_ping", "ping_decide"} -> 1
      [] at = "check_ssh" -> 2
      [] at \in {"check_java_master", "check_hadoop_master", "start", "join",
                 "reconcile_java", "reconcile_hadoop", "write_java", "write_hadoop",
                 "returned"} -> 3
      [] at \in {"skew", "skew_decide"} -> 4
      [] at = "finished" -> 5
      [] at = "exit" -> 6

SessionOpened == \E s \in Slaves : channel[s] # "unopened" \/ pc[s] # "created"

\* C14: the stages run in the order ping, ssh, versions, skew; a slave that
\* is unknown or does not answer the ping, or whose ssh.connect fails, ends
\* the run with a non-zero status before any thread of the version check
\* opens a session; and nothing happens after an exit.
C14_Gate ==
    /\ [](/\ SessionOpened =>
               \A s \in Slaves : ping[s] = "success" /\ ssh[s] = "ok"
          /\ (mpc \notin {"check_ping", "ping_decide"}
                /\ \E s \in Slaves : ping[s] \in {"unknown", "fail"}) =>
               (mpc = "exit" /\ exit_code = 1 /\ ~SessionOpened)
          /\ (\E s \in Slaves : ssh[s] \notin {"", "ok"}) =>
               (mpc = "exit" /\ exit_code = 1 /\ ~SessionOpened))
    /\ [][mpc # "exit" /\ Stage(mpc') >= Stage(mpc)]_vars

C14_Witness ==
    /\ mpc = "exit"
    /\ exit_code = 1
    /\ \A s \in Slaves : ping[s] = "success"
    /\ \E s \in Slaves : ssh[s] = "AuthenticationException"
    /\ ~SessionOpened

\* The versions a report file has a block for.
Headers(lines) == {lines[n].val : n \in {m \in 1..Len(lines) : lines[m].kind = "version"}}

\* C15: a report file exists only when the "none" buckets of both maps were
\* empty; then both files get written, without a "none" block.
C15_NoPartialReport ==
    /\ files # EmptyDict =>
         /\ mpc \in {"write_hadoop", "returned"}
         /\ Bucket(java_vers, "none") = <<>>
         /\ Bucket(hadoop_vers, "none") = <<>>
    /\ mpc = "write_java" =>
         (java_vers["none"] = <<>> /\ hadoop_vers["none"] = <<>>)
    /\ mpc = "returned" =>
         /\ DOMAIN files = {"java_ver.txt", "hadoop_ver.txt"}
         /\ Headers(files["java_ver.txt"]) = DOMAIN java_vers
         /\ Headers(files["hadoop_ver.txt"]) = DOMAIN hadoop_vers
         /\ "none" \notin Headers(files["java_ver.txt"]) \cup Headers(files["hadoop_ver.txt"])
    /\ mpc = "exit" => files = EmptyDict

C15_Witness ==
    /\ mpc = "returned"
    /\ \A s \in Slaves : pc[s] = "done"
    /\ Cardinality(Headers(files["hadoop_ver.txt"])) = 1
    /\ Len(files["hadoop_ver.txt"]) = Len(get_slaves) + 3

\* ---------------------------------------------------------------------------
\* The protocol of one thread
\* ---------------------------------------------------------------------------

IsPrefix(a, b) == Len(a) <= Len(b) /\ a = SubSeq(b, 1, Len(a))

\* A command goes out to slave s in this step.
Sends(s) == cmd'[s] # <<>> /\ cmd'[s] # cmd[s]

\* Slave s is inserted into dic in this step.
Inserted(dic, dicNext, s) == Occurrences(dicNext, s) > Occurrences(dic, s)

\* C17: every thread opens its session, reads the welcome message exactly
\* once, sends "java -version", "which hadoop" and "<resolved path> version"
\* in that order, closes the channel, then inserts into the Java dict and
\* then into the Hadoop dict; what a thread has done is always an initial
\* part of that order, no command is sent before the welcome message is read
\* or after the close, and no insertion happens with the channel still open.
C17_ProtocolOrder ==
    /\ [](\A s \in Slaves :
            /\ IsPrefix(log[s], Protocol)
            /\ pc[s] = "done" => log[s] = Protocol
            /\ cmd[s] # <<>> =>
                  /\ channel[s] = "open"
                  /\ Count(log[s], "banner") = 1
                  /\ log[s][Len(log[s])] = Head(cmd[s])
            /\ (cmd[s] # <<>> /\ Head(cmd[s]) = "version") =>
                  /\ cmd[s] = <<"version", hadoop_path[s]>>
                  /\ hadoop_path[s] \in {DefaultHadoopPath} \cup (Paths \ {""})
            /\ ("open" \in Range(log[s])) = (channel[s] # "unopened")
            /\ ("close" \in Range(log[s])) = (channel[s] = "closed"))
    /\ [][\A s \in Slaves :
            /\ Sends(s) =>
                  /\ channel[s] = "open" /\ channel'[s] = "open"
                  /\ Count(log[s], "banner") = 1
                  /\ log'[s] = Append(log[s], Head(cmd'[s]))
            /\ Inserted(java_vers, java_vers', s) =>
                  /\ channel[s] = "closed"
                  /\ log'[s] = Append(log[s], "add_java")
            /\ Inserted(hadoop_vers, hadoop_vers', s) =>
                  /\ channel[s] = "closed"
                  /\ "add_java" \in Range(log[s])
                  /\ log'[s] = Append(log[s], "add_hadoop")
            /\ log'[s] # log[s] =>
                  \/ Sends(s)
                  \/ Inserted(java_vers, java_vers', s)
                  \/ Inserted(hadoop_vers, hadoop_vers', s)
                  \/ channel'[s] # channel[s]
                  \/ log'[s] = Append(log[s], "banner")]_vars

\* A thread has gone through the whole protocol and is in both dicts, while
\* another one is still waiting for the output of its Hadoop command.
C17_Witness ==
    \E s, t \in Slaves :
        /\ log[s] = Protocol
        /\ Occurrences(java_vers, s) = 1
        /\ Occurrences(hadoop_vers, s) = 1
        /\ cmd[t] # <<>> /\ Head(cmd[t]) = "version"


\* ---------------------------------------------------------------------------
\* Waiting for output without a timeout
\* ---------------------------------------------------------------------------

\* The threads and the main thread are scheduled fairly; whether a slave ever
\* makes output available is left to the slave.
ThreadFairSpec ==
    /\ Spec
    /\ WF_vars(Main)
    /\ \A s \in Slaves : WF_vars(Thread(s))

WaitStates == {"java_wait", "which_wait", "hadoop_wait"}

\* Thread s is in the poll loop of run_remote_command with nothing to read.
Stuck(s) == pc[s] \in WaitStates /\ ~ready[s]

\* C18: run_remote_command is left only once the channel has reported output,
\* and never by a timeout.  When no slave withholds the output of a command
\* for ever, every thread ends and check_java_hadoop_slaves returns (or
\* check_versions has exited before starting it).  When a slave withholds
\* output for ever, its thread stays in the poll loop for ever and
\* check_java_hadoop_slaves never returns, while every other thread whose
\* slave keeps answering still ends.
C18_NoTimeout ==
    /\ [][\A s \in Slaves :
            (pc[s] \in WaitStates /\ pc'[s] # pc[s]) => ready[s]]_vars
    /\ (\A s \in Slaves : []<>~Stuck(s)) =>
           <>(mpc = "exit" \/ (AfterInventory /\ \A s \in Slaves : Ended(s)))
    /\ \A s \in Slaves :
           <>[]Stuck(s) =>
              /\ <>[](Stuck(s) /\ mpc = "join")
              /\ []~AfterInventory
              /\ \A t \in Slaves \ {s} : []<>~Stuck(t) => <>Ended(t)

\* One thread sits in the poll loop with no output to read while another
\* has run to its end and the main thread is in its join loop.
C18_Witness ==
    /\ mpc = "join"
    /\ \E s, t \in Slaves : Stuck(s) /\ pc[s] = "which_wait" /\ pc[t] = "done"

\* ---------------------------------------------------------------------------
\* cpu_ram_monitor.py: the monitor service of a slave
\* ---------------------------------------------------------------------------

\* Most sampling chains the clients are let to start.
MaxTimers == 2

\* The push counter wraps after MaxPushes.
MaxPushes == 2

paths == <<"/start-monitoring", "/end-monitoring">>

\* The paths the clients post to: the two of the service and another one.
RequestPaths == {paths[1], paths[2], "/push-stats"}

\* What the service leaves alone.
checkVars == <<mpc, i, msg, exit_code, versionVars, gateVars>>

\* Number of sampling chains: timers waiting to fire, and timer threads that
\* have passed the check of the flag and are about to start their next timer.
Chains == timers + running

Pushed(n) == (n + 1) % (MaxPushes + 1)

\* HTTPServer takes one request at a time: the next is accepted when do_POST
\* has returned.
Receive(p) ==
    /\ request = ""
    /\ (p = paths[1] /\ ~monitoring_active) => Chains < MaxTimers
    /\ request' = p
    /\ UNCHANGED <<monitoring_active, timers, running, response, pushes>>
    /\ UNCHANGED checkVars

\* Mutant: a start is taken whatever the flag says.
AlreadyActiveNever == FALSE

\* `if monitoring_active:` of do_POST, line 37.
AlreadyActive == monitoring_active

\* do_POST, with the call of monitor() that a taken start makes: the flag is
\* set, so monitor() starts a Timer, then gathers and pushes the stats; when
\* that raises (psutil, requests.post) no status is sent.
do_POST ==
    /\ request # ""
    /\ request' = ""
    /\ IF request \notin Range(paths)
       THEN /\ response' = [path |-> request, code |-> 404]
            /\ UNCHANGED <<monitoring_active, timers, pushes>>
       ELSE IF request = paths[1]
       THEN IF AlreadyActive
            THEN /\ response' = [path |-> request, code |-> 405]
                 /\ UNCHANGED <<monitoring_active, timers, pushes>>
            ELSE /\ monitoring_active' = TRUE
                 /\ timers' = timers + 1
                 /\ \/ /\ pushes' = Pushed(pushes)
                       /\ response' = [path |-> request, code |-> 200]
                    \/ /\ pushes' = pushes
                       /\ response' = [path |-> request, code |-> 0]
       ELSE /\ monitoring_active' = FALSE
            /\ response' = [path |-> request, code |-> 200]
            /\ UNCHANGED <<timers, pushes>>
    /\ UNCHANGED running
    /\ UNCHANGED checkVars

\* Mutant: a timer thread goes on whatever the flag says.
ContinuesAlways == TRUE

\* `if not monitoring_active: return` of monitor(), lines 56-57.
Continues == monitoring_active

\* A Timer fires: its thread calls monitor(), which reads the flag.
TimerFire ==
    /\ timers > 0
    /\ timers' = timers - 1
    /\ running' = IF Continues THEN running + 1 ELSE running
    /\ UNCHANGED <<monitoring_active, request, response, pushes>>
    /\ UNCHANGED checkVars

\* The rest of monitor() in a timer thread: the next Timer is started, then
\* the stats are gathered and pushed, or that raises and the thread ends.
MonitorRun ==
    /\ running > 0
    /\ running' = running - 1
    /\ timers' = timers + 1
    /\ pushes' \in {Pushed(pushes), pushes}
    /\ UNCHANGED <<monitoring_active, request, response>>
    /\ UNCHANGED checkVars

\* The service starts with nothing done.
MonitorInit == RunInit

MonitorNext ==
    \/ \E p \in RequestPaths : Receive(p)
    \/ do_POST
    \/ TimerFire
    \/ MonitorRun

MonitorSpec == MonitorInit /\ [][MonitorNext]_vars

\* A Timer fires one second after its start, and every thread gets to run.
MonitorFairSpec ==
    /\ MonitorSpec
    /\ WF_vars(do_POST)
    /\ WF_vars(TimerFire)
    /\ WF_vars(MonitorRun)

\* do_POST returns in this step.
Handled == request # "" /\ request' = ""

\* C16: a start posted while monitoring is active is refused (status 405,
\* "Monitoring is already active") and changes neither the flag nor the
\* timers nor the pushes; a post to another path than the two of the service
\* is answered 404 and changes none of them either; the flag changes only
\* when a start is taken while it is off (to on) or when an end is handled
\* (to off).
C16_Rejections ==
    [][/\ (Handled /\ request = paths[1] /\ monitoring_active) =>
             /\ response' = [path |-> request, code |-> 405]
             /\ UNCHANGED <<monitoring_active, timers, running, pushes>>
       /\ (Handled /\ request \notin Range(paths)) =>
             /\ response' = [path |-> request, code |-> 404]
             /\ UNCHANGED <<monitoring_active, timers, running, pushes>>
       /\ monitoring_active' # monitoring_active =>
             /\ Handled
             /\ \/ /\ request = paths[1]
                   /\ ~monitoring_active /\ monitoring_active'
                   /\ response'.code \in {200, 0}
                \/ /\ request = paths[2]
                   /\ monitoring_active /\ ~monitoring_active'
                   /\ response'.code = 200]_vars

\* A start has just been refused: monitoring is on with its one chain.
C16_Witness ==
    /\ response = [path |-> paths[1], code |-> 405]
    /\ request = ""
    /\ monitoring_active
    /\ Chains = 1

\* C19: whatever the starts, ends and timer firings, there is at most one
\* sampling chain at any time.
C19_OneChain == Chains <= 1

\* C20: a timer thread that calls monitor() with the flag off starts no
\* Timer and pushes nothing; a push is made only by a taken start or by a
\* timer thread that read the flag on; so when the flag stays off from some
\* point on, eventually no Timer is waiting and no timer thread is left.
C20_SamplingStops ==
    /\ [][(timers' < timers /\ ~monitoring_active) =>
             /\ timers' = timers - 1
             /\ running' = running
             /\ pushes' = pushes]_vars
    /\ [][pushes' # pushes =>
             \/ running' < running
             \/ Handled /\ request = paths[1] /\ ~monitoring_active]_vars
    /\ <>[]~monitoring_active => <>[](timers = 0 /\ running = 0)

\* Monitoring has been stopped and the last chain has ended after pushes.
C20_Witness ==
    /\ ~monitoring_active
    /\ response = [path |-> paths[2], code |-> 200]
    /\ timers = 0 /\ running = 0
    /\ pushes = MaxPushes

====
